---- MODULE Spec2Model ----
(***************************************************************************)
(* Model of engineioxide's polling payload encoder                         *)
(* (engineioxide/src/transport/polling/payload/encoder.rs).                *)
(*                                                                         *)
(* One session queue (a PeekableReceiver over an mpsc channel), producers  *)
(* that enqueue packets concurrently, and one encode call at a time that   *)
(* drains the queue with try_recv_packet and falls back to recv_packet.    *)
(* Every queue operation of the encoder (peek, try_recv, recv, close) is   *)
(* one step, so producers interleave between them as they do at run time.  *)
(***************************************************************************)
EXTENDS Integers, Sequences, FiniteSets, TLC

(* ------------------------------ bounds --------------------------------- *)

\* number of packets the producers enqueue in one behaviour
MaxPackets == 3

\* number of packets the producers enqueue in one behaviour of FairSpec
MaxLivePackets == 2

\* number of packets the producers enqueue in one behaviour of FailSpec
MaxFailPackets == 3

\* max_payload values an encode call is made with
MaxPayloads == {1, 9, 20}

\* max_payload values an encode call is made with in FailSpec: the tests'
\* small value and their MAX_PAYLOAD (line 249)
FailMaxPayloads == {20, 100000}

(* ------------------------------ packets -------------------------------- *)

\* "hello" followed by the three UTF-8 bytes of the euro sign (tests, line 257)
HelloEuro == <<104, 101, 108, 108, 111, 226, 130, 172>>

\* the packet values the producers send: [tag, body]
PacketValues ==
    { [tag |-> "Close",    body |-> <<>>],
      [tag |-> "Message",  body |-> <<>>],
      [tag |-> "Message",  body |-> HelloEuro],
      [tag |-> "Binary",   body |-> <<1, 2, 3, 4>>],
      [tag |-> "BinaryV3", body |-> <<1, 2, 3, 4>>] }

\* the packet values the producers send in FailSpec: with the handshake
\* packet, whose body is its JSON (abridged to an empty object)
FailPacketValues ==
    { [tag |-> "Close",    body |-> <<>>],
      [tag |-> "Message",  body |-> <<>>],
      [tag |-> "BinaryV3", body |-> <<1, 2, 3, 4>>],
      [tag |-> "Open",     body |-> <<123, 125>>] }

\* the packet values the producers send in FairSpec
LivePacketValues ==
    { [tag |-> "Close",    body |-> <<>>],
      [tag |-> "Message",  body |-> <<>>],
      [tag |-> "Message",  body |-> HelloEuro] }

\* Packet::is_binary
is_binary(p) == p.tag \in {"Binary", "BinaryV3"}

\* base64::encoded_len(n, padding = true)
encoded_len(n) == 4 * ((n + 2) \div 3)

\* the 64 characters of the standard base64 alphabet, as bytes
B64Char(i) ==
    IF i < 26 THEN 65 + i
    ELSE IF i < 52 THEN 97 + (i - 26)
    ELSE IF i < 62 THEN 48 + (i - 52)
    ELSE IF i = 62 THEN 43 ELSE 47

\* standard base64 with padding
RECURSIVE Base64(_)
Base64(bin) ==
    IF Len(bin) = 0 THEN <<>>
    ELSE IF Len(bin) = 1 THEN
        << B64Char(bin[1] \div 4), B64Char((bin[1] % 4) * 16), 61, 61 >>
    ELSE IF Len(bin) = 2 THEN
        << B64Char(bin[1] \div 4),
           B64Char((bin[1] % 4) * 16 + bin[2] \div 16),
           B64Char((bin[2] % 16) * 4), 61 >>
    ELSE
        << B64Char(bin[1] \div 4),
           B64Char((bin[1] % 4) * 16 + bin[2] \div 16),
           B64Char((bin[2] % 16) * 4 + bin[3] \div 64),
           B64Char(bin[3] % 64) >> \o Base64(SubSeq(bin, 4, Len(bin)))

\* Packet -> String (TryInto<String>): the wire text of a packet
Text(p) ==
    CASE p.tag = "Open"     -> <<48>> \o p.body
      [] p.tag = "Close"    -> <<49>>
      [] p.tag = "Message"  -> <<52>> \o p.body
      [] p.tag = "Binary"   -> <<98>> \o Base64(p.body)
      [] p.tag = "BinaryV3" -> <<98, 52>> \o Base64(p.body)

\* the packets whose conversion to text can return an error: the handshake
\* data of Open goes through the JSON serializer
may_fail(p) == p.tag = "Open"

\* Packet::get_size_hint(b64)
get_size_hint(p, b64) ==
    CASE p.tag = "Open"     -> 151
      [] p.tag = "Close"    -> 1
      [] p.tag = "Message"  -> 1 + Len(p.body)
      [] p.tag = "Binary"   -> IF b64 THEN 1 + encoded_len(Len(p.body))
                                      ELSE 1 + Len(p.body)
      [] p.tag = "BinaryV3" -> IF b64 THEN 2 + encoded_len(Len(p.body))
                                      ELSE 1 + Len(p.body)

(* --------------------------- number formatting ------------------------- *)

\* usize::to_string as the sequence of its decimal digit values
RECURSIVE Digits(_)
Digits(n) == IF n < 10 THEN <<n>> ELSE Digits(n \div 10) \o <<n % 10>>

\* u64::checked_ilog10().unwrap_or(0) + 1
RECURSIVE ilog10(_)
ilog10(n) == IF n < 10 THEN 0 ELSE 1 + ilog10(n \div 10)
max_packet_size_len(mp) == ilog10(mp) + 1

\* str::chars().count(): the bytes that are not UTF-8 continuation bytes
RECURSIVE chars_count(_)
chars_count(s) ==
    IF s = <<>> THEN 0
    ELSE (IF s[1] >= 128 /\ s[1] < 192 THEN 0 ELSE 1) + chars_count(Tail(s))

RECURSIVE AsciiDigits(_)
AsciiDigits(ds) == IF ds = <<>> THEN <<>> ELSE <<48 + ds[1]>> \o AsciiDigits(Tail(ds))

(* --------------------------- packet encoders --------------------------- *)

PACKET_SEPARATOR_V4 == 30
BINARY_PACKET_SEPARATOR_V3 == 255
STRING_PACKET_SEPARATOR_V3 == 58

\* v3_bin_packet_encoder: the bytes appended to data for one packet
v3_bin_packet_encoder(p) ==
    IF p.tag = "BinaryV3"
    THEN <<1>> \o Digits(Len(p.body) + 1) \o <<BINARY_PACKET_SEPARATOR_V3>>
              \o <<4>> \o p.body
    ELSE <<0>> \o Digits(Len(Text(p))) \o <<BINARY_PACKET_SEPARATOR_V3>>
              \o Text(p)

\* v3_string_packet_encoder: the bytes appended to data for one packet
v3_string_packet_encoder(p) ==
    AsciiDigits(Digits(chars_count(Text(p))))
        \o <<STRING_PACKET_SEPARATOR_V3>> \o Text(p)

(* ------------------------------- state --------------------------------- *)

VARIABLES
    chan,            \* the mpsc channel behind the PeekableReceiver, oldest first
    next,            \* PeekableReceiver.next: <<>> or <<the peeked packet>>
    closed,          \* the channel is closed: nothing more can be sent
    sent,            \* number of packets enqueued so far
    pc,              \* where the encode call in progress is ("idle": none)
    enc,             \* the encoder of the call: "v4", "v3s" or "v3b"
    max_payload,     \* the max_payload argument of the call
    data,            \* the call's output buffer (bytes)
    current_size,    \* v3_string_encoder's current_size
    packet_buffer,   \* v3_binary_encoder's packet_buffer
    estimated_size,  \* v3_binary_encoder's estimated_size
    has_binary,      \* v3_binary_encoder's has_binary
    packet,          \* the Close packet held between its take and close()
    frames,          \* the packets written into data so far, with their frame
    result,          \* what the last call returned
    call,            \* history of the call: queue at its start, what it took
    delivered,       \* the packets of all returned payloads, in order
    discarded,       \* packets dropped by the take that follows a Close
    guard,           \* 1 while an encode call holds the MutexGuard of the queue
    lost             \* packets taken by calls that ended in SerializationFailure

queueVars == <<chan, next, closed, sent>>
localVars == <<data, current_size, packet_buffer, estimated_size, has_binary, frames>>
vars == <<chan, next, closed, sent, pc, enc, max_payload, data, current_size,
          packet_buffer, estimated_size, has_binary, packet, frames, result,
          call, delivered, discarded, guard, lost>>

\* the packets a consumer can still obtain, oldest first
Queue == next \o chan

NoResult == [status |-> "none", data |-> <<>>, has_binary |-> FALSE, frames |-> <<>>]

NoCall == [startQ |-> <<>>, startSent |-> 0, drained |-> 0, closeTaken |-> FALSE,
           flushAvail |-> FALSE, flushed |-> 0]

Init ==
    /\ chan = <<>> /\ next = <<>> /\ closed = FALSE /\ sent = 0
    /\ pc = "idle" /\ enc = "v4" /\ max_payload = 0
    /\ data = <<>> /\ current_size = 0 /\ packet_buffer = <<>>
    /\ estimated_size = 0 /\ has_binary = FALSE /\ packet = <<>>
    /\ frames = <<>> /\ result = NoResult /\ call = NoCall
    /\ delivered = <<>> /\ discarded = <<>>
    /\ guard = 0 /\ lost = <<>>

(* ----------------------------- producers ------------------------------- *)

\* tx.try_send(packet): a producer enqueues a packet; fails once closed
Enqueue(v) ==
    /\ ~closed
    /\ chan' = Append(chan, [id |-> sent + 1, tag |-> v.tag, body |-> v.body])
    /\ sent' = sent + 1
    /\ UNCHANGED <<next, closed, pc, enc, max_payload, data, current_size,
                   packet_buffer, estimated_size, has_binary, packet, frames,
                   result, call, delivered, discarded, guard, lost>>

\* the session closes the queue from outside (spec: close, idempotent)
SessionClose ==
    /\ ~closed
    /\ closed' = TRUE
    /\ UNCHANGED <<chan, next, sent, pc, enc, max_payload, data, current_size,
                   packet_buffer, estimated_size, has_binary, packet, frames,
                   result, call, delivered, discarded, guard, lost>>

(* --------------------------- PeekableReceiver -------------------------- *)

\* PeekableReceiver::peek: fills next from the channel when it is empty
peek_next == IF next = <<>> /\ chan # <<>> THEN <<Head(chan)>> ELSE next
peek_chan == IF next = <<>> /\ chan # <<>> THEN Tail(chan) ELSE chan

\* PeekableReceiver::try_recv: next first, then the channel; <<>> when empty
try_recv_packet_of == IF next # <<>> THEN next
                      ELSE IF chan # <<>> THEN <<Head(chan)>> ELSE <<>>
try_recv_next == <<>>
try_recv_chan == IF next = <<>> /\ chan # <<>> THEN Tail(chan) ELSE chan

(* ------------------------- encoder continuations ----------------------- *)

PUNCTUATION_LEN_V4 == 1
PUNCTUATION_LEN_V3 == 2

\* the b64 argument each encoder passes to try_recv_packet
b64_of(e) == e # "v3b"

\* the payload_len argument each encoder passes to try_recv_packet
payload_len ==
    CASE enc = "v4"  -> Len(data) + PUNCTUATION_LEN_V4
      [] enc = "v3s" -> current_size
      [] enc = "v3b" -> estimated_size

\* faulty variant of exceeds_budget: the budget is never checked
exceeds_budget_never(len, p, b64, mp) == FALSE

\* try_recv_packet's budget check on the peeked packet
exceeds_budget(len, p, b64, mp) == len + get_size_hint(p, b64) > mp

\* faulty variant of needs_fallback: the fallback is never taken
needs_fallback_never(d) == FALSE

\* faulty variant of needs_fallback: the fallback is taken after every drain
needs_fallback_always(d) == TRUE

\* the is_empty() test that guards the liveness fallback
needs_fallback(d) == Len(d) = 0

\* one packet written into the output, with the grammar of its frame
Frame(p, grammar, bytes) == [pkt |-> p, grammar |-> grammar, bytes |-> bytes]

\* faulty variant of push: the packet is inserted at the front
push_front(buf, p) == <<p>> \o buf

\* packet_buffer.push(packet): at the end
push(buf, p) == Append(buf, p)

\* the packets of a payload, in the order of their frames
RECURSIVE Packets(_)
Packets(fs) == IF fs = <<>> THEN <<>> ELSE <<fs[1].pkt>> \o Packets(Tail(fs))

\* faulty variant of encode_buffer: has_binary is ignored, string frames only
RECURSIVE encode_buffer_string(_, _)
encode_buffer_string(buf, bin) ==
    IF buf = <<>> THEN <<>>
    ELSE <<Frame(buf[1], "string", v3_string_packet_encoder(buf[1]))>>
         \o encode_buffer_string(Tail(buf), bin)

\* faulty variant of encode_buffer: has_binary is ignored, byte frames only
RECURSIVE encode_buffer_binary(_, _)
encode_buffer_binary(buf, bin) ==
    IF buf = <<>> THEN <<>>
    ELSE <<Frame(buf[1], "binary", v3_bin_packet_encoder(buf[1]))>>
         \o encode_buffer_binary(Tail(buf), bin)

\* the second phase of v3_binary_encoder: frame every buffered packet
RECURSIVE encode_buffer(_, _)
encode_buffer(buf, bin) ==
    IF buf = <<>> THEN <<>>
    ELSE <<Frame(buf[1], IF bin THEN "binary" ELSE "string",
                 IF bin THEN v3_bin_packet_encoder(buf[1])
                        ELSE v3_string_packet_encoder(buf[1]))>>
         \o encode_buffer(Tail(buf), bin)

RECURSIVE Bytes(_)
Bytes(fs) == IF fs = <<>> THEN <<>> ELSE fs[1].bytes \o Bytes(Tail(fs))

\* Ok(Payload::new(d, hb)) or an error: the call ends, its locals are dropped
Return(st, d, hb, fs) ==
    /\ pc' = "idle"
    /\ guard' = 0
    /\ UNCHANGED lost
    /\ result' = [status |-> st, data |-> d, has_binary |-> hb, frames |-> fs]
    /\ delivered' = delivered \o Packets(fs)
    /\ data' = <<>> /\ current_size' = 0 /\ packet_buffer' = <<>>
    /\ estimated_size' = 0 /\ has_binary' = FALSE /\ frames' = <<>>

\* Err(SerializationFailure) through `?`: the call ends without a payload
\* and the packets it had taken are dropped with its buffers
Fail(taken) ==
    /\ pc' = "idle"
    /\ guard' = 0
    /\ result' = [status |-> "failed", data |-> <<>>, has_binary |-> FALSE,
                  frames |-> <<>>]
    /\ lost' = lost \o taken
    /\ UNCHANGED delivered
    /\ data' = <<>> /\ current_size' = 0 /\ packet_buffer' = <<>>
    /\ estimated_size' = 0 /\ has_binary' = FALSE /\ frames' = <<>>

\* faulty variant of LoopBody: a failed conversion ends the loop and the
\* packets encoded so far are returned
LoopBody_partial(p) ==
    \/ /\ pc' = "peek"
       /\ UNCHANGED <<guard, lost, result, delivered, current_size>>
       /\ CASE enc = "v4" ->
                 /\ data' = (IF data # <<>> THEN Append(data, PACKET_SEPARATOR_V4)
                                            ELSE data) \o Text(p)
                 /\ frames' = Append(frames, Frame(p, "v4", Text(p)))
                 /\ UNCHANGED <<packet_buffer, estimated_size, has_binary>>
            [] enc = "v3s" ->
                 /\ data' = data \o v3_string_packet_encoder(p)
                 /\ frames' = Append(frames, Frame(p, "string", v3_string_packet_encoder(p)))
                 /\ UNCHANGED <<packet_buffer, estimated_size, has_binary>>
            [] enc = "v3b" ->
                 /\ has_binary' = (has_binary \/ is_binary(p))
                 /\ estimated_size' = estimated_size + get_size_hint(p, FALSE)
                        + max_packet_size_len(max_payload) + PUNCTUATION_LEN_V3
                 /\ packet_buffer' = push(packet_buffer, p)
                 /\ UNCHANGED <<data, frames>>
    \/ /\ enc \in {"v4", "v3s"} /\ may_fail(p)
       /\ Return("ok", data, FALSE, frames)

\* the body of the drain loop, for a packet try_recv_packet returned; in
\* v4_encoder and v3_string_encoder the packet is converted here and the
\* conversion may fail
LoopBody(p) ==
    \/ /\ pc' = "peek"
       /\ UNCHANGED <<guard, lost, result, delivered, current_size>>
       /\ CASE enc = "v4" ->
                 /\ data' = (IF data # <<>> THEN Append(data, PACKET_SEPARATOR_V4)
                                            ELSE data) \o Text(p)
                 /\ frames' = Append(frames, Frame(p, "v4", Text(p)))
                 /\ UNCHANGED <<packet_buffer, estimated_size, has_binary>>
            [] enc = "v3s" ->
                 /\ data' = data \o v3_string_packet_encoder(p)
                 /\ frames' = Append(frames, Frame(p, "string", v3_string_packet_encoder(p)))
                 /\ UNCHANGED <<packet_buffer, estimated_size, has_binary>>
            [] enc = "v3b" ->
                 /\ has_binary' = (has_binary \/ is_binary(p))
                 /\ estimated_size' = estimated_size + get_size_hint(p, FALSE)
                        + max_packet_size_len(max_payload) + PUNCTUATION_LEN_V3
                 /\ packet_buffer' = push(packet_buffer, p)
                 /\ UNCHANGED <<data, frames>>
    \/ /\ enc \in {"v4", "v3s"} /\ may_fail(p)
       /\ Fail(Packets(frames) \o <<p>>)

\* try_recv_packet returned None: the drain loop ends
DrainEnd ==
    LET fs == IF enc = "v3b" THEN encode_buffer(packet_buffer, has_binary)
                             ELSE frames
        d  == IF enc = "v3b" THEN Bytes(fs) ELSE data
    IN  \/ IF needs_fallback(d)
           THEN /\ pc' = "recv"
                /\ UNCHANGED <<guard, lost, result, delivered, data, current_size,
                               packet_buffer, estimated_size, has_binary, frames>>
           ELSE Return("ok", d, has_binary, fs)
        \/ /\ enc = "v3b"
           /\ \E i \in 1..Len(packet_buffer) : may_fail(packet_buffer[i])
           /\ Fail(packet_buffer)

\* faulty variant of Fallback: every encoder flags a binary packet
Fallback_flags_binary(p) ==
    CASE enc = "v4"  -> Return("ok", Text(p), is_binary(p), <<Frame(p, "v4", Text(p))>>)
      [] enc = "v3s" -> Return("ok", v3_string_packet_encoder(p), is_binary(p),
                               <<Frame(p, "string", v3_string_packet_encoder(p))>>)
      [] enc = "v3b" ->
            IF p.tag \in {"BinaryV3", "Binary"}
            THEN Return("ok", v3_bin_packet_encoder(p), TRUE,
                        <<Frame(p, "binary", v3_bin_packet_encoder(p))>>)
            ELSE Return("ok", v3_string_packet_encoder(p), has_binary,
                        <<Frame(p, "string", v3_string_packet_encoder(p))>>)

\* the liveness fallback, for the packet recv_packet returned; its
\* conversion may fail
Fallback(p) ==
    \/ CASE enc = "v4"  -> Return("ok", Text(p), FALSE, <<Frame(p, "v4", Text(p))>>)
         [] enc = "v3s" -> Return("ok", v3_string_packet_encoder(p), FALSE,
                                  <<Frame(p, "string", v3_string_packet_encoder(p))>>)
         [] enc = "v3b" ->
               IF p.tag \in {"BinaryV3", "Binary"}
               THEN Return("ok", v3_bin_packet_encoder(p), TRUE,
                           <<Frame(p, "binary", v3_bin_packet_encoder(p))>>)
               ELSE Return("ok", v3_string_packet_encoder(p), has_binary,
                           <<Frame(p, "string", v3_string_packet_encoder(p))>>)
    \/ /\ may_fail(p)
       /\ Fail(<<p>>)

(* ----------------------------- encode call ----------------------------- *)

\* faulty variant of StartCall: the encoder runs without the queue's lock
StartCall_no_lock(e, mp) ==
    /\ guard' = 1
    /\ pc' = "peek"
    /\ enc' = e /\ max_payload' = mp
    /\ data' = <<>>
    /\ current_size' = (IF e = "v3s"
                        THEN Len(data') + PUNCTUATION_LEN_V3 + max_packet_size_len(mp)
                        ELSE 0)
    /\ packet_buffer' = <<>> /\ estimated_size' = 0 /\ has_binary' = FALSE
    /\ frames' = <<>> /\ packet' = <<>>
    /\ result' = NoResult
    /\ call' = [NoCall EXCEPT !.startQ = Queue, !.startSent = sent]
    /\ UNCHANGED <<chan, next, closed, sent, delivered, discarded, lost>>

\* a caller takes the queue's lock (mutex.lock().await) and calls v4_encoder /
\* v3_string_encoder / v3_binary_encoder with the MutexGuard
StartCall(e, mp) ==
    /\ guard = 0
    /\ guard' = 1
    /\ pc' = "peek"
    /\ enc' = e /\ max_payload' = mp
    /\ data' = <<>>
    /\ current_size' = (IF e = "v3s"
                        THEN Len(data') + PUNCTUATION_LEN_V3 + max_packet_size_len(mp)
                        ELSE 0)
    /\ packet_buffer' = <<>> /\ estimated_size' = 0 /\ has_binary' = FALSE
    /\ frames' = <<>> /\ packet' = <<>>
    /\ result' = NoResult
    /\ call' = [NoCall EXCEPT !.startQ = Queue, !.startSent = sent]
    /\ UNCHANGED <<chan, next, closed, sent, delivered, discarded, lost>>

\* faulty variant of Peek: a packet that does not fit is taken and dropped
Peek_consumes ==
    /\ pc = "peek"
    /\ UNCHANGED <<closed, sent, enc, max_payload, packet, call, discarded>>
    /\ IF peek_next # <<>>
          /\ exceeds_budget(payload_len, peek_next[1], b64_of(enc), max_payload)
       THEN /\ next' = <<>> /\ chan' = peek_chan
            /\ DrainEnd
       ELSE /\ next' = peek_next /\ chan' = peek_chan
            /\ pc' = "take"
            /\ UNCHANGED <<guard, lost, result, delivered, data, current_size, packet_buffer,
                           estimated_size, has_binary, frames>>

\* try_recv_packet, lines 32-38: peek and check the budget
Peek ==
    /\ pc = "peek"
    /\ next' = peek_next /\ chan' = peek_chan
    /\ UNCHANGED <<closed, sent, enc, max_payload, packet, call, discarded>>
    /\ IF peek_next # <<>>
          /\ exceeds_budget(payload_len, peek_next[1], b64_of(enc), max_payload)
       THEN DrainEnd
       ELSE /\ pc' = "take"
            /\ UNCHANGED <<guard, lost, result, delivered, data, current_size, packet_buffer,
                           estimated_size, has_binary, frames>>

\* try_recv_packet, line 40: take; a packet other than Close is returned
Take ==
    /\ pc = "take"
    /\ next' = try_recv_next /\ chan' = try_recv_chan
    /\ UNCHANGED <<closed, sent, enc, max_payload, discarded>>
    /\ IF try_recv_packet_of = <<>>
       THEN /\ DrainEnd
            /\ UNCHANGED <<packet, call>>
       ELSE IF try_recv_packet_of[1].tag = "Close"
       THEN /\ pc' = "discard"
            /\ packet' = try_recv_packet_of
            /\ call' = [call EXCEPT !.closeTaken = TRUE]
            /\ UNCHANGED <<guard, lost, result, delivered, data, current_size, packet_buffer,
                           estimated_size, has_binary, frames>>
       ELSE /\ LoopBody(try_recv_packet_of[1])
            /\ call' = [call EXCEPT !.drained = @ + 1]
            /\ UNCHANGED packet

\* faulty variant of Discard: every packet behind the Close is dropped
Discard_all ==
    /\ pc = "discard"
    /\ pc' = "close"
    /\ next' = <<>> /\ chan' = <<>>
    /\ discarded' = discarded \o Queue
    /\ call' = [call EXCEPT !.flushAvail = (Queue # <<>>),
                            !.flushed = @ + Len(Queue)]
    /\ UNCHANGED <<closed, sent, enc, max_payload, packet, guard, lost, result, delivered,
                   data, current_size, packet_buffer, estimated_size,
                   has_binary, frames>>

\* try_recv_packet, line 45: one more take after a Close, result dropped
Discard ==
    /\ pc = "discard"
    /\ pc' = "close"
    /\ next' = try_recv_next /\ chan' = try_recv_chan
    /\ discarded' = discarded \o try_recv_packet_of
    /\ call' = [call EXCEPT !.flushAvail = (Queue # <<>>),
                            !.flushed = @ + Len(try_recv_packet_of)]
    /\ UNCHANGED <<closed, sent, enc, max_payload, packet, guard, lost, result, delivered,
                   data, current_size, packet_buffer, estimated_size,
                   has_binary, frames>>

\* try_recv_packet, lines 46-51: close the channel and return the Close packet
CloseAfterTake ==
    /\ pc = "close"
    /\ closed' = TRUE
    /\ LoopBody(packet[1])
    /\ packet' = <<>>
    /\ call' = [call EXCEPT !.drained = @ + 1]
    /\ UNCHANGED <<chan, next, sent, enc, max_payload, discarded>>

\* faulty variant of Recv: the wait does not end when the channel is closed
Recv_ignores_close ==
    /\ pc = "recv"
    /\ Queue # <<>>
    /\ next' = try_recv_next /\ chan' = try_recv_chan
    /\ UNCHANGED <<closed, sent, enc, max_payload, discarded>>
    /\ IF try_recv_packet_of[1].tag = "Close"
       THEN /\ pc' = "rclose"
            /\ packet' = try_recv_packet_of
            /\ call' = [call EXCEPT !.closeTaken = TRUE]
            /\ UNCHANGED <<guard, lost, result, delivered, data, current_size, packet_buffer,
                           estimated_size, has_binary, frames>>
       ELSE /\ Fallback(try_recv_packet_of[1])
            /\ UNCHANGED <<packet, call>>

\* recv_packet, line 57: wait for a packet; Aborted when closed and empty
Recv ==
    /\ pc = "recv"
    /\ Queue # <<>> \/ closed
    /\ next' = try_recv_next /\ chan' = try_recv_chan
    /\ UNCHANGED <<closed, sent, enc, max_payload, discarded>>
    /\ IF try_recv_packet_of = <<>>
       THEN /\ Return("aborted", <<>>, FALSE, <<>>)
            /\ UNCHANGED <<packet, call>>
       ELSE IF try_recv_packet_of[1].tag = "Close"
       THEN /\ pc' = "rclose"
            /\ packet' = try_recv_packet_of
            /\ call' = [call EXCEPT !.closeTaken = TRUE]
            /\ UNCHANGED <<guard, lost, result, delivered, data, current_size, packet_buffer,
                           estimated_size, has_binary, frames>>
       ELSE /\ Fallback(try_recv_packet_of[1])
            /\ UNCHANGED <<packet, call>>

\* faulty variant of CloseAfterRecv: the channel is left open
CloseAfterRecv_no_close ==
    /\ pc = "rclose"
    /\ Fallback(packet[1])
    /\ packet' = <<>>
    /\ call' = [call EXCEPT !.flushAvail = (Queue # <<>>)]
    /\ UNCHANGED <<chan, next, closed, sent, enc, max_payload, discarded>>

\* recv_packet, lines 58-66: close the channel and return the Close packet
CloseAfterRecv ==
    /\ pc = "rclose"
    /\ closed' = TRUE
    /\ Fallback(packet[1])
    /\ packet' = <<>>
    /\ call' = [call EXCEPT !.flushAvail = (Queue # <<>>)]
    /\ UNCHANGED <<chan, next, sent, enc, max_payload, discarded>>

\* the caller drops the encode call while it waits in recv_packet: the
\* future and its MutexGuard are dropped, nothing else happens
Abandon ==
    /\ pc = "recv"
    /\ Return("cancelled", <<>>, FALSE, <<>>)
    /\ UNCHANGED <<chan, next, closed, sent, enc, max_payload, packet, call,
                   discarded>>

EncoderStep == Peek \/ Take \/ Discard \/ CloseAfterTake \/ Recv \/ CloseAfterRecv

\* the steps of the session, for producers that send up to limit packets
\* drawn from values
Step(values, limit, payloads) ==
    \/ \E v \in values : sent < limit /\ Enqueue(v)
    \/ SessionClose
    \/ \E e \in {"v4", "v3s", "v3b"}, mp \in payloads : StartCall(e, mp)
    \/ Peek
    \/ Take
    \/ Discard
    \/ CloseAfterTake
    \/ Recv
    \/ CloseAfterRecv

Next == Step(PacketValues, MaxPackets, MaxPayloads) \/ Abandon

Spec == Init /\ [][Next]_vars

LiveNext == Step(LivePacketValues, MaxLivePackets, MaxPayloads)

\* the runtime runs the encode call whenever it can make a step
FairSpec == Init /\ [][LiveNext]_vars /\ WF_vars(EncoderStep)

\* the session with its handshake packet in the queue, whose serialization
\* can fail
FailNext == Step(FailPacketValues, MaxFailPackets, FailMaxPayloads) \/ Abandon

FailSpec == Init /\ [][FailNext]_vars

\* what the producers and the session do in FairSpec
Producer ==
    \/ \E v \in LivePacketValues : sent < MaxLivePackets /\ Enqueue(v)
    \/ SessionClose

\* FairSpec with a producer side that eventually enqueues a packet or closes
\* the queue while an encode call waits in recv_packet
ProducerFairSpec ==
    /\ Init /\ [][LiveNext]_vars
    /\ WF_vars(EncoderStep)
    /\ WF_vars(pc = "recv" /\ Producer)

TypeOK ==
    /\ pc \in {"idle", "peek", "take", "discard", "close", "recv", "rclose"}
    /\ Len(next) <= 1
    /\ sent \in 0..MaxPackets
    /\ result.status \in {"none", "ok", "aborted", "failed", "cancelled"}
    /\ guard \in {0, 1}

(* ------------------------- vocabulary of the claims -------------------- *)

\* the call has returned and no later call has started
Returned == pc = "idle" /\ result.status \notin {"none", "cancelled"}

\* s is the beginning of t
IsPrefix(s, t) == Len(s) <= Len(t) /\ SubSeq(t, 1, Len(s)) = s

\* payload_len of the first try_recv_packet of a call
initial_len(e, mp) ==
    CASE e = "v4"  -> PUNCTUATION_LEN_V4
      [] e = "v3s" -> PUNCTUATION_LEN_V3 + max_packet_size_len(mp)
      [] e = "v3b" -> 0

\* the packet at the head of the queue when the call started is, alone,
\* estimated larger than max_payload
OversizeHead ==
    /\ call.startQ # <<>>
    /\ initial_len(enc, max_payload)
         + get_size_hint(Head(call.startQ), b64_of(enc)) > max_payload

\* a Close packet was delivered by a call that returned before the current one
ClosePacketIn(ps) == \E i \in 1..Len(ps) : ps[i].tag = "Close"
CloseConsumedEarlier ==
    IF pc = "idle" THEN ClosePacketIn(SubSeq(delivered, 1, Len(delivered) - Len(result.frames)))
    ELSE ClosePacketIn(delivered)

(* -------------------------------- C1 ----------------------------------- *)

\* C1: every call that returns successfully returns a payload that holds at
\* least one encoded packet (and at least one byte); no encoder returns an
\* empty payload.
C1_NeverEmptyPayload ==
    result.status = "ok" => Len(result.frames) >= 1 /\ Len(result.data) >= 1

\* a call that found the queue empty, waited, and returned one packet
C1_Witness ==
    /\ Returned /\ result.status = "ok"
    /\ call.startQ = <<>> /\ call.drained = 0 /\ Len(result.frames) = 1

(* -------------------------------- C2 ----------------------------------- *)

\* C2 (safety part): a call that started with an oversize packet at the head
\* of the queue returns a payload holding exactly that packet, and the packets
\* that were behind it are still queued, in order, at the front of the queue.
C2_AloneInv ==
    (Returned /\ OversizeHead) =>
        /\ result.status = "ok"
        /\ Packets(result.frames) = <<Head(call.startQ)>>
        /\ IsPrefix(Tail(call.startQ), Queue)

\* C2: if the packet at the head of the queue is alone estimated larger than
\* max_payload, the encode call terminates and returns a payload with exactly
\* that packet; the packets behind it stay queued in their order.
C2_OversizeHeadAlone ==
    /\ [] C2_AloneInv
    /\ (pc # "idle" /\ OversizeHead) ~> Returned

\* an oversize head was delivered alone while a packet that fits waits behind it
C2_Witness ==
    /\ Returned /\ OversizeHead /\ result.status = "ok"
    /\ Len(call.startQ) >= 2
    /\ ~ (initial_len(enc, max_payload)
            + get_size_hint(call.startQ[2], b64_of(enc)) > max_payload)

(* -------------------------------- C3 ----------------------------------- *)

\* C3: the packets delivered, payload after payload and left to right inside
\* each payload, are in enqueue order: ids strictly increase.
C3_OrderPreserved ==
    \A i, j \in 1..Len(delivered) : i < j => delivered[i].id < delivered[j].id

\* three packets delivered by at least two calls, the last of which returned
\* a packet that was enqueued after the first call had started
C3_Witness ==
    /\ Returned /\ result.status = "ok"
    /\ Len(delivered) = 3 /\ Len(result.frames) < 3
    /\ call.startSent > 0 /\ call.startSent < sent

(* -------------------------------- C4 ----------------------------------- *)

\* C4: whenever an encode call consumes a Close packet, on the drain path or
\* on the fallback path, exactly one subsequent packet is discarded if one is
\* available at that point (none otherwise) and the queue is closed before
\* the call returns.
C4_CloseDiscardsOne ==
    (Returned /\ call.closeTaken) =>
        /\ closed
        /\ call.flushed = (IF call.flushAvail THEN 1 ELSE 0)

(* -------------------------------- C5 ----------------------------------- *)

\* C5 (safety part): once a Close packet has been consumed by an earlier call,
\* a call that starts on an empty queue returns Aborted.
C5_AbortedInv ==
    (Returned /\ CloseConsumedEarlier /\ call.startQ = <<>>) =>
        result.status = "aborted"

\* C5: after an encode call has consumed a Close packet, every later encode
\* call terminates, and once the queue is empty every later call returns
\* Aborted.
C5_AfterCloseTerminates ==
    /\ [] C5_AbortedInv
    /\ (pc # "idle" /\ CloseConsumedEarlier) ~> Returned

\* a call made after a Close packet was delivered returned Aborted
C5_Witness ==
    Returned /\ CloseConsumedEarlier /\ result.status = "aborted"

(* -------------------------------- C6 ----------------------------------- *)

\* C6: a call that starts on an empty queue and returns without any packet
\* having been enqueued meanwhile returns Aborted and no payload; Aborted is
\* only returned by a call whose drain produced zero packets.
C6_AbortedOnlyFromFallback ==
    /\ (Returned /\ call.startQ = <<>> /\ call.startSent = sent) =>
           result.status = "aborted"
    /\ result.status = "aborted" =>
           /\ call.drained = 0 /\ ~call.closeTaken
           /\ result.frames = <<>> /\ result.data = <<>>

\* the session closed the queue while a call was waiting on it, empty
C6_Witness ==
    /\ Returned /\ result.status = "aborted"
    /\ call.startQ = <<>> /\ ~ClosePacketIn(delivered) /\ sent = 0

(* ------------------------------ C7 - C9 -------------------------------- *)

\* the bytes of a packet that its size estimate stands for
content_len(f) ==
    IF f.grammar = "binary" /\ f.pkt.tag = "BinaryV3"
    THEN Len(f.pkt.body) + 1
    ELSE Len(Text(f.pkt))

\* the estimate of every packet of the payload covers its serialized length
EstimatesCover(b64) ==
    \A i \in 1..Len(result.frames) :
        get_size_hint(result.frames[i].pkt, b64) >= content_len(result.frames[i])

\* C7: every payload of v4_encoder with two or more packets is at most
\* max_payload bytes long (size estimates covering the serialized lengths).
C7_V4WithinMaxPayload ==
    (Returned /\ result.status = "ok" /\ enc = "v4"
        /\ Len(result.frames) >= 2 /\ EstimatesCover(TRUE)) =>
        Len(result.data) <= max_payload

\* C8: every payload of v3_string_encoder with two or more frames is at most
\* max_payload bytes long (size estimates covering the serialized lengths).
C8_V3StringWithinMaxPayload ==
    (Returned /\ result.status = "ok" /\ enc = "v3s"
        /\ Len(result.frames) >= 2 /\ EstimatesCover(TRUE)) =>
        Len(result.data) <= max_payload

\* C9: every payload of v3_binary_encoder with two or more frames is at most
\* max_payload bytes long (size estimates covering the serialized contents).
C9_V3BinaryWithinMaxPayload ==
    (Returned /\ result.status = "ok" /\ enc = "v3b"
        /\ Len(result.frames) >= 2 /\ EstimatesCover(FALSE)) =>
        Len(result.data) <= max_payload

(* -------------------------------- C10 ---------------------------------- *)

\* the value of a sequence of decimal digit values
RECURSIVE DigitsValue(_)
DigitsValue(ds) ==
    IF ds = <<>> THEN 0 ELSE 10 * DigitsValue(SubSeq(ds, 1, Len(ds) - 1)) + ds[Len(ds)]

\* bytes is one frame of the byte-oriented grammar: a type tag 0 or 1, the
\* length as digit values, the 0xFF separator, then that many bytes
IsByteFrame(bytes) ==
    /\ Len(bytes) >= 3
    /\ bytes[1] \in {0, 1}
    /\ \E k \in 3..Len(bytes) :
          /\ bytes[k] = BINARY_PACKET_SEPARATOR_V3
          /\ \A i \in 2..(k - 1) : bytes[i] \in 0..9
          /\ DigitsValue(SubSeq(bytes, 2, k - 1)) = Len(bytes) - k

\* C10: when the batch of a v3_binary_encoder call holds a binary packet, the
\* payload has contains_binary = true and every packet of it, text packets
\* included, is framed with the byte-oriented grammar.
C10_BinaryBatchAllByteFrames ==
    (Returned /\ result.status = "ok" /\ enc = "v3b"
        /\ \E i \in 1..Len(result.frames) : is_binary(result.frames[i].pkt)) =>
        /\ result.has_binary
        /\ result.data = Bytes(result.frames)
        /\ \A i \in 1..Len(result.frames) :
              /\ result.frames[i].grammar = "binary"
              /\ IsByteFrame(result.frames[i].bytes)

\* a payload of the binary encoder that holds a text and a binary packet
C10_Witness ==
    /\ Returned /\ result.status = "ok" /\ enc = "v3b"
    /\ \E i, j \in 1..Len(result.frames) :
          /\ result.frames[i].pkt.tag = "Message"
          /\ result.frames[j].pkt.tag = "BinaryV3"


(* -------------------------------- C11 ---------------------------------- *)

\* the value of a sequence of ASCII decimal digits
RECURSIVE AsciiValue(_)
AsciiValue(ds) ==
    IF ds = <<>> THEN 0
    ELSE 10 * AsciiValue(SubSeq(ds, 1, Len(ds) - 1)) + (ds[Len(ds)] - 48)

\* bytes is one frame of the length-prefixed text grammar: the character
\* count in ASCII digits, ':', then a text of that many characters
IsStringFrame(bytes) ==
    \E k \in 2..Len(bytes) :
        /\ bytes[k] = STRING_PACKET_SEPARATOR_V3
        /\ \A i \in 1..(k - 1) : bytes[i] \in 48..57
        /\ AsciiValue(SubSeq(bytes, 1, k - 1))
             = chars_count(SubSeq(bytes, k + 1, Len(bytes)))

\* the payload holds a binary packet
BinaryInPayload == \E i \in 1..Len(result.frames) : is_binary(result.frames[i].pkt)

\* C11: when the batch of a v3_binary_encoder call holds no binary packet the
\* payload has contains_binary = false and every packet is framed with the
\* length-prefixed text grammar; contains_binary is true exactly when the
\* batch holds a binary packet.
C11_TextBatchAllStringFrames ==
    (Returned /\ result.status = "ok" /\ enc = "v3b") =>
        /\ result.has_binary <=> BinaryInPayload
        /\ ~BinaryInPayload =>
              /\ result.data = Bytes(result.frames)
              /\ \A i \in 1..Len(result.frames) :
                    /\ result.frames[i].grammar = "string"
                    /\ IsStringFrame(result.frames[i].bytes)

\* a drained payload of the binary encoder with two text packets
C11_Witness ==
    /\ Returned /\ result.status = "ok" /\ enc = "v3b"
    /\ Len(result.frames) >= 2 /\ ~BinaryInPayload

(* -------------------------------- C12 ---------------------------------- *)

\* C12: v4_encoder and v3_string_encoder always return contains_binary =
\* false, also for batches with binary packets and for fallback payloads.
C12_TextEncodersNeverBinary ==
    (Returned /\ result.status = "ok" /\ enc \in {"v4", "v3s"}) =>
        ~result.has_binary

\* a text encoder returned a binary packet obtained by the liveness fallback
C12_Witness ==
    /\ Returned /\ result.status = "ok" /\ enc \in {"v4", "v3s"}
    /\ BinaryInPayload /\ call.drained = 0

(* -------------------------------- C13 ---------------------------------- *)

\* C13: every packet try_recv_packet takes is the packet it peeked, and has
\* passed the budget check payload_len + size_hint <= max_payload.
C13_TakenWasChecked ==
    [][ (pc = "take" /\ pc' # "take" /\ try_recv_packet_of # <<>>) =>
            /\ next # <<>>
            /\ ~exceeds_budget(payload_len, try_recv_packet_of[1],
                               b64_of(enc), max_payload) ]_vars

(* -------------------------------- C14 ---------------------------------- *)

\* the peek of try_recv_packet is about to stop the drain on the budget
BudgetStop ==
    /\ pc = "peek" /\ peek_next # <<>>
    /\ exceeds_budget(payload_len, peek_next[1], b64_of(enc), max_payload)

\* the drain stopped on the budget before any packet was drained: the call
\* is in the liveness fallback with the packet that did not fit peeked
StoppedEmpty == pc = "recv" /\ next # <<>>

\* C14 as stated: a budget stop removes nothing, does not close the queue, and
\* the packet that did not fit is left for the next encode call (the call in
\* progress never takes it).
C14_StopLeavesPacketForNextCall ==
    [][ /\ (BudgetStop /\ pc' # "peek") =>
              /\ Queue' = Queue /\ closed' = closed
              /\ Head(Queue') = peek_next[1]
        /\ StoppedEmpty => next' = next ]_vars

\* C14 amended: a budget stop removes nothing and does not close the queue;
\* the packet that did not fit stays at the head of the queue. If the drain
\* had produced a packet the call ends there, so that packet is the first one
\* of the next call; otherwise the fallback of the same call takes it and
\* returns it alone, or fails on its conversion.
C14_StopRemovesNothing ==
    [][ /\ (BudgetStop /\ pc' # "peek") =>
              /\ Queue' = Queue /\ closed' = closed
              /\ Head(Queue') = peek_next[1]
              /\ IF call.drained > 0 THEN pc' = "idle" ELSE pc' = "recv"
        /\ (StoppedEmpty /\ next' # next) =>
              \/ pc' = "rclose" /\ packet' = next
              \/ pc' = "idle" /\ result'.status = "ok"
                    /\ Packets(result'.frames) = next
              \/ pc' = "idle" /\ result'.status = "failed"
                    /\ lost' = lost \o next ]_vars

\* a call returned a payload after its drain stopped on a packet that did
\* not fit, which is still the first packet of the queue
C14_Witness ==
    /\ Returned /\ result.status = "ok"
    /\ call.drained >= 1 /\ next # <<>>


(* -------------------------------- C15 ---------------------------------- *)

\* a step that takes a packet out of the queue, peeks one, or closes it with
\* a call in progress
QueueStepOfCall ==
    \/ Len(Queue') < Len(Queue)
    \/ next' # next
    \/ (closed' # closed /\ pc # pc')

\* a step after which a call is at the start of its drain, coming from
\* anywhere but the start of a drain
CallBegins == pc' = "peek" /\ call'.drained = 0 /\ pc # "peek"

Abandoned == pc = "idle" /\ result.status = "cancelled"

\* C16: a call abandoned in the liveness fallback has taken no packet from
\* the queue and has not closed it: the queue holds what it held when the
\* call started followed by what was enqueued since; the next call delivers
\* the first of these packets first.
C16_AbandonLeavesQueue ==
    /\ Abandoned =>
          /\ call.drained = 0 /\ ~call.closeTaken /\ call.flushed = 0
          /\ IsPrefix(call.startQ, Queue)
          /\ Len(Queue) = Len(call.startQ) + (sent - call.startSent)
    /\ (Returned /\ result.status = "ok") =>
          result.frames[1].pkt.id =
              (IF call.startQ # <<>> THEN Head(call.startQ).id
                                     ELSE call.startSent + 1)

\* a call was abandoned on an empty queue and a packet arrived afterwards
C16_Witness ==
    /\ Abandoned /\ call.startQ = <<>> /\ Len(Queue) = 1

(* -------------------------------- C17 ---------------------------------- *)

\* the last call returned Err(SerializationFailure)
Failed == pc = "idle" /\ result.status = "failed"

\* the ids of the packets of a sequence
IdsOf(s) == { s[i].id : i \in 1..Len(s) }

\* the packets the call in progress has taken and still holds: its encoded
\* frames, the buffer of v3_binary_encoder and the packet last received
InFlight == Packets(frames) \o packet_buffer \o packet

\* every packet sent is in exactly one place: the queue, a returned payload,
\* the discards after a Close, the call in progress, or dropped by a call
\* that failed
Conserved ==
    /\ sent = Len(Queue) + Len(delivered) + Len(discarded) + Len(lost)
                 + Len(InFlight)
    /\ 1..sent = IdsOf(Queue) \cup IdsOf(delivered) \cup IdsOf(discarded)
                     \cup IdsOf(lost) \cup IdsOf(InFlight)

\* C17: an encode call in which a serialization fails returns
\* SerializationFailure with no payload, never the packets encoded before the
\* failure; the packets the call had taken are dropped with it and not put
\* back in the queue; the failure does not close the queue and releases the
\* lock, so that a fresh call can be made.
C17_FailureReturnsNoPayload ==
    /\ [] (Failed => /\ result.data = <<>> /\ result.frames = <<>>
                      /\ InFlight = <<>> /\ guard = 0)
    /\ [][ (result'.status = "failed" /\ result.status # "failed") =>
              /\ delivered' = delivered
              /\ closed' = closed
              /\ \E k \in {0, 1} : Queue' = SubSeq(Queue, k + 1, Len(Queue))
              /\ IdsOf(lost') = IdsOf(lost) \cup IdsOf(InFlight)
                                   \cup (IdsOf(Queue) \ IdsOf(Queue'))
              /\ lost' # lost ]_vars
    /\ [] Conserved

\* a call failed after it had taken an earlier packet, both packets were
\* dropped, and a later call on the same open queue returned a payload
C17_Witness ==
    /\ Len(lost) >= 2 /\ ~closed
    /\ Returned /\ result.status = "ok"
    /\ \A i \in 1..Len(lost) : lost[i].id < result.frames[1].pkt.id

(* -------------------------------- C18 ---------------------------------- *)

\* C18: an encode call started on a queue that holds a packet always has a
\* step it can take without the producers and returns a payload; a call can
\* only be without a step in the liveness fallback, which it enters only
\* with nothing drained; there it has a step exactly when a packet is queued
\* or the queue is closed, and that step ends the call (after the close that
\* follows a Close packet); and with a fair scheduler and producers that
\* eventually enqueue or close, every call terminates. (The producers of
\* ProducerFairSpec send no packet whose serialization fails.)
C18_CallsDoNotBlock ==
    /\ [] (pc # "idle" /\ call.startQ # <<>> => ENABLED EncoderStep)
    /\ [] (Returned /\ call.startQ # <<>> => result.status = "ok")
    /\ [] (pc \notin {"idle", "recv"} => ENABLED EncoderStep)
    /\ [] (pc = "recv" => /\ call.drained = 0 /\ data = <<>>
                          /\ frames = <<>> /\ packet_buffer = <<>>)
    /\ [] (pc = "recv" => (ENABLED EncoderStep <=> Queue # <<>> \/ closed))
    /\ [][ pc = "recv" /\ pc' # "recv" => pc' \in {"idle", "rclose"} ]_vars
    /\ [][ pc = "rclose" /\ pc' # "rclose" => pc' = "idle" ]_vars
    /\ (pc # "idle" ~> pc = "idle")

\* a call that started on an empty queue and waited has returned the packet
\* a producer enqueued during the wait
C18_Witness ==
    /\ Returned /\ result.status = "ok"
    /\ call.startQ = <<>> /\ call.drained = 0
    /\ result.frames[1].pkt.id > call.startSent

(* -------------------------------- C19 ---------------------------------- *)

\* the Close packets of a sequence
ClosesOf(s) == { i \in 1..Len(s) : s[i].tag = "Close" }

\* C19: as long as no call has failed on a serialization, every packet sent
\* is in exactly one place: the queue, one payload (once), or the discards,
\* and between calls nowhere else; every discarded packet is the packet
\* that was enqueued right behind a Close packet that was consumed, one per
\* Close, so there are at most as many discards as consumed Close packets.
C19_PacketsConserved ==
    lost = <<>> =>
        /\ sent = Len(Queue) + Len(delivered) + Len(discarded) + Len(InFlight)
        /\ 1..sent = IdsOf(Queue) \cup IdsOf(delivered) \cup IdsOf(discarded)
                         \cup IdsOf(InFlight)
        /\ pc = "idle" => InFlight = <<>>
        /\ \A i \in 1..Len(discarded) :
              \E j \in ClosesOf(delivered \o InFlight) :
                  (delivered \o InFlight)[j].id + 1 = discarded[i].id
        /\ Len(discarded) <= Cardinality(ClosesOf(delivered \o InFlight))

\* between two calls, with no failure so far, packets are in all three
\* places: one delivered with a Close, one discarded, one still queued
C19_Witness ==
    /\ pc = "idle" /\ lost = <<>>
    /\ Queue # <<>> /\ discarded # <<>> /\ ClosesOf(delivered) # {}

(* -------------------------------- C20 ---------------------------------- *)

\* C20: a Close packet is the last packet of the payload that carries it,
\* and no packet enqueued behind a consumed Close packet is delivered, in
\* the same payload or in a later one.
C20_CloseEndsDelivery ==
    /\ (Returned /\ result.status = "ok") =>
           \A i \in 1..Len(result.frames) :
               result.frames[i].pkt.tag = "Close" => i = Len(result.frames)
    /\ \A i \in ClosesOf(delivered) : \A j \in 1..Len(delivered) :
           delivered[j].id <= delivered[i].id

====
